---- MODULE Spec2Model ----
(***************************************************************************)
(* The Streamlit dashboard of src/main.py as a state machine.              *)
(*                                                                         *)
(* A run of the script is one step: load_data (cached after the first      *)
(* run), the sidebar filters, then the ten chart calls of the layout in    *)
(* order.  An exception ends the run where it is raised.  The state is     *)
(* what the script's globals hold at the end of the run, plus what each    *)
(* chart function showed.                                                  *)
(*                                                                         *)
(* A DataFrame is a record [columns, rows]: the column names in header     *)
(* order, and the rows as functions from the column names to cell values.  *)
(* A CSV cell that the script converts (session Year, campaign Date) is    *)
(* its text, a sequence of characters.                                     *)
(***************************************************************************)
EXTENDS Integers, Sequences, FiniteSets, TLC

VARIABLES
    files,            \* the three CSV files under data/, as read_csv returns them
    HAS_PLOTLY,       \* main.py:18-22
    HAS_WORDCLOUD,    \* main.py:24-28
    pc,               \* "start" | "load_error" | "rendered" | "aborted"
    campaign_df_all, session_df_all, stress_df_all,   \* main.py:104
    selected_year, selected_univ,                     \* main.py:114, 135
    session_df, campaign_df, stress_df,               \* main.py:116-141
    raised,           \* the exception that ended the last run, or "none"
    shown,            \* what each of the ten chart calls of the layout showed
    pivot,            \* the summary table of draw_sessions_heatmap (main.py:197)
    agg               \* the summary table of draw_campaign_timeline (main.py:303)

vars == <<files, HAS_PLOTLY, HAS_WORDCLOUD, pc, campaign_df_all, session_df_all,
          stress_df_all, selected_year, selected_univ, session_df, campaign_df,
          stress_df, raised, shown, pivot, agg>>

-----------------------------------------------------------------------------
(* Bounds and value domains *)

MaxRows == 2            \* rows per CSV file in the data families
MaxOtherRows == 1       \* campaign and stress rows in the filter family
MaxMissing == 2         \* header columns missing from a file in the schema family

\* A missing value (pandas NaN / NaT); every real year and count is positive.
NaN == -1
\* The "All" entry of the year selectbox, in the sort of the years.
AllYears == 0
\* The "All" entry of the university selectbox.
All == "All"

Years == {2023, 2024}
\* University names in sorted() order.
Universities == <<"A", "B">>
UniversitySet == {Universities[i] : i \in 1..Len(Universities)}
HeldValues == {3, 5}

YearCells == { <<"2","0","2","3">>, <<"2","0","2","4">> }
BadYearCell == <<"n","/","a">>
DateCells == { <<"2","0","2","3","-","0","1","-","1","5">>,
               <<"2","0","2","4","-","0","6","-","0","1">>,
               <<"s","o","o","n">> }

SessionColumns == <<"Year", "University", "Sessions_Held", "Students_Served",
                    "Avg_Session_Duration", "Session_Notes">>
CampaignColumns == <<"Date", "University", "Headline">>
StressColumns == <<"University", "Stress_Level", "Gender", "Age", "Avg_Sleep_Hours",
                   "Primary_Stress_Factor", "Seeks_Help", "Year">>

-----------------------------------------------------------------------------
(* DataFrame helpers (pandas) *)

Range(s) == {s[i] : i \in 1..Len(s)}

EmptyDF == [columns |-> <<>>, rows |-> <<>>]

\* "c" in df.columns
HasColumn(df, c) == \E i \in 1..Len(df.columns) : df.columns[i] = c

\* df.empty: no rows or no columns
IsEmpty(df) == Len(df.rows) = 0 \/ Len(df.columns) = 0

\* df[df[c] == v]; the caller has checked that the column exists
FilterEq(df, c, v) ==
    LET keep(r) == r[c] = v
    IN [columns |-> df.columns, rows |-> SelectSeq(df.rows, keep)]

\* set(df[c].unique())
UniqueOf(df, c) == {df.rows[i][c] : i \in 1..Len(df.rows)}

RECURSIVE SortedInts(_)
SortedInts(S) ==
    IF S = {} THEN <<>>
    ELSE LET m == CHOOSE x \in S : \A y \in S : x <= y
         IN <<m>> \o SortedInts(S \ {m})

\* sorted() of a set of university names
SortedUnivs(S) ==
    LET keep(u) == u \in S IN SelectSeq(Universities, keep)

\* A header with the columns of D dropped, and a row cut down to a header.
DropColumns(cols, D) == LET keep(c) == c \notin D IN SelectSeq(cols, keep)
Project(r, cols) == [c \in Range(cols) |-> r[c]]

-----------------------------------------------------------------------------
(* Conversions of load_data *)

DigitChars == <<"0","1","2","3","4","5","6","7","8","9">>
IsDigit(ch) == ch \in Range(DigitChars)
DigitVal(ch) == (CHOOSE i \in 1..10 : DigitChars[i] = ch) - 1

AllDigits(cell) == Len(cell) > 0 /\ \A i \in 1..Len(cell) : IsDigit(cell[i])

RECURSIVE DecimalValue(_)
DecimalValue(cell) ==
    IF Len(cell) = 0 THEN 0
    ELSE 10 * DecimalValue(SubSeq(cell, 1, Len(cell) - 1)) + DigitVal(cell[Len(cell)])

\* Series.astype(int) succeeds only if every cell is an integer literal.
CanCastInt(cell) == AllDigits(cell)

\* pd.to_datetime(cell, errors="coerce").dt.year for the assumed yyyy-mm-dd
\* layout: the year, or NaN when the text is no such date.
ToDatetimeYear(cell) ==
    IF /\ Len(cell) = 10
       /\ cell[5] = "-" /\ cell[8] = "-"
       /\ AllDigits(SubSeq(cell, 1, 4))
       /\ AllDigits(SubSeq(cell, 6, 7))
       /\ AllDigits(SubSeq(cell, 9, 10))
       /\ DecimalValue(SubSeq(cell, 6, 7)) \in 1..12
       /\ DecimalValue(SubSeq(cell, 9, 10)) \in 1..31
    THEN DecimalValue(SubSeq(cell, 1, 4))
    ELSE NaN

\* row with r[c] set to v (the column is added when new)
WithCell(r, c, v) == [k \in (DOMAIN r) \cup {c} |-> IF k = c THEN v ELSE r[k]]

\* The exception load_data raises on these files, or "none".
LoadRaises(f) ==
    IF ~HasColumn(f.campaign, "Date") THEN "KeyError"            \* line 94
    ELSE IF ~HasColumn(f.session, "Year") THEN "KeyError"        \* line 97
    ELSE IF \E i \in 1..Len(f.session.rows) : ~CanCastInt(f.session.rows[i]["Year"])
         THEN "ValueError"                                       \* line 97
    ELSE "none"

\* load_data(), when it returns
load_data(f) ==
    [campaign |->
        [columns |-> IF HasColumn(f.campaign, "Year") THEN f.campaign.columns
                     ELSE Append(f.campaign.columns, "Year"),
         rows |-> [i \in 1..Len(f.campaign.rows) |->
                     WithCell(f.campaign.rows[i], "Year",
                              ToDatetimeYear(f.campaign.rows[i]["Date"]))]],
     session |->
        [columns |-> f.session.columns,
         rows |-> [i \in 1..Len(f.session.rows) |->
                     WithCell(f.session.rows[i], "Year",
                              DecimalValue(f.session.rows[i]["Year"]))]],
     stress |-> f.stress]

-----------------------------------------------------------------------------
(* Sidebar filters, main.py:109-141 *)

\* year_options, without the leading "All"
year_options(df_all) == SortedInts(UniqueOf(df_all, "Year"))

\* The three tables after the year filter (lines 116-129).
YearFiltered(tables, sy) ==
    IF sy # AllYears
    THEN [session |-> FilterEq(tables.session, "Year", sy),
          campaign |-> FilterEq(tables.campaign, "Year", sy),
          stress |-> IF HasColumn(tables.stress, "Year")
                     THEN FilterEq(tables.stress, "Year", sy)
                     ELSE tables.stress,
          raised |-> "none"]
    ELSE [session |-> tables.session, campaign |-> tables.campaign,
          stress |-> tables.stress, raised |-> "none"]

\* univ_options, without the leading "All" (line 133); none when the session
\* table has no University column (line 132).
univ_options(df) ==
    IF HasColumn(df, "University") THEN SortedUnivs(UniqueOf(df, "University")) ELSE <<>>

\* The university filter (lines 132-141) on the year-filtered tables.  Line 139
\* indexes campaign_df["University"] unguarded: KeyError when the column is
\* absent, with session_df already narrowed and stress_df not yet.
UnivFiltered(t, su) ==
    IF ~HasColumn(t.session, "University") \/ su = All THEN t
    ELSE IF ~HasColumn(t.campaign, "University")
    THEN [t EXCEPT !.session = FilterEq(t.session, "University", su),
                   !.raised = "KeyError"]
    ELSE [t EXCEPT !.session = FilterEq(t.session, "University", su),
                   !.campaign = FilterEq(t.campaign, "University", su),
                   !.stress = IF HasColumn(t.stress, "University")
                              THEN FilterEq(t.stress, "University", su)
                              ELSE t.stress]

\* The sidebar block as a whole.
Sidebar(tables, sy, su) == UnivFiltered(YearFiltered(tables, sy), su)

-----------------------------------------------------------------------------
(* What a chart function shows *)

NotReached == [kind |-> "not_reached", arg |-> ""]
Info(msg) == [kind |-> "info", arg |-> msg]                 \* st.info
AltairChart == [kind |-> "altair_chart", arg |-> ""]        \* st.altair_chart
PlotlyChart == [kind |-> "plotly_chart", arg |-> ""]        \* st.plotly_chart
Pyplot == [kind |-> "pyplot", arg |-> ""]                   \* st.pyplot
Raise(exc) == [kind |-> "raise", arg |-> exc]               \* an uncaught exception

\* _warn_missing(lib_name): st.warning naming the library
_warn_missing(lib_name) == [kind |-> "warning", arg |-> lib_name]

\* Some column of cols is not in df.  pandas raises KeyError and Plotly Express
\* ValueError for a column name that is not in the frame; Altair raises
\* ValueError for an encoding field given without a type that is no column.
MissingAny(df, cols) == \E c \in cols : ~HasColumn(df, c)

\* A missing note (NaN), dropped by dropna()
MissingText == "<NaN>"
\* text.strip() == ""
IsBlank(s) == s \in {"", " "}

-----------------------------------------------------------------------------
(* Summary tables *)

\* Sum of Sessions_Held per (University, Year) key, over the first n rows.
RECURSIVE SumByKey(_, _)
SumByKey(rows, n) ==
    IF n = 0 THEN <<>>
    ELSE LET prev == SumByKey(rows, n - 1)
             k == <<rows[n]["University"], rows[n]["Year"]>>
             v == rows[n]["Sessions_Held"]
         IN IF k \in DOMAIN prev THEN [prev EXCEPT ![k] = @ + v]
            ELSE [x \in (DOMAIN prev) \cup {k} |-> IF x = k THEN v ELSE prev[x]]

\* Number of rows per (University, Year) key, over the first n rows.
RECURSIVE CountByKey(_, _)
CountByKey(rows, n) ==
    IF n = 0 THEN <<>>
    ELSE LET prev == CountByKey(rows, n - 1)
             k == <<rows[n]["University"], rows[n]["Year"]>>
         IN IF k \in DOMAIN prev THEN [prev EXCEPT ![k] = @ + 1]
            ELSE [x \in (DOMAIN prev) \cup {k} |-> IF x = k THEN 1 ELSE prev[x]]

\* The pivot with aggfunc="count" in place of "sum".
PivotAggregateCount(rows) == CountByKey(rows, Len(rows))

\* aggfunc of the pivot (line 198): "sum"
PivotAggregate(rows) == SumByKey(rows, Len(rows))

\* df.pivot_table(index="University", columns="Year", values="Sessions_Held",
\* aggfunc="sum").reset_index().melt(...): one row per University of the index
\* and Year of the columns, NaN where the pair has no input row.  The order of
\* the summary rows is not modelled; nothing reads it.
PivotMelt(df) ==
    LET cells == PivotAggregate(df.rows)
        index == {k[1] : k \in DOMAIN cells}
        columns == {k[2] : k \in DOMAIN cells}
    IN {[University |-> u, Year |-> y,
         Sessions_Held |-> IF <<u, y>> \in DOMAIN cells THEN cells[<<u, y>>] ELSE NaN]
        : u \in index, y \in columns}

\* The second grouping key of draw_campaign_timeline (line 303)
TimelineKey(df) == IF HasColumn(df, "University") THEN "University" ELSE df.columns[1]

\* df.groupby(["Year", key]).size().reset_index(name="Headlines"): one row per
\* observed key pair; rows whose Year is NaN belong to no group.
GroupSize(df) ==
    LET key == TimelineKey(df)
        idx == {i \in 1..Len(df.rows) : df.rows[i]["Year"] # NaN}
        keys == {<<df.rows[i]["Year"], df.rows[i][key]>> : i \in idx}
    IN {[Year |-> k[1], Key |-> k[2],
         Headlines |-> Cardinality({i \in idx : <<df.rows[i]["Year"], df.rows[i][key]>> = k})]
        : k \in keys}

-----------------------------------------------------------------------------
(* The ten chart functions, main.py:156-332 *)

draw_sessions_trend(df) ==
    IF IsEmpty(df) THEN Info("No data for selected filters.")
    ELSE IF MissingAny(df, {"University", "Year", "Sessions_Held"}) THEN Raise("ValueError")
    ELSE AltairChart

draw_sessions_bubble(df) ==
    IF IsEmpty(df) THEN Info("No data for selected filters.")
    ELSE IF HAS_PLOTLY
    THEN IF MissingAny(df, {"Sessions_Held", "Students_Served", "Avg_Session_Duration", "Year"})
         THEN Raise("ValueError")
         ELSE PlotlyChart
    ELSE _warn_missing("plotly-express")

\* draw_sessions_heatmap without the df.empty test of line 194.
draw_sessions_heatmap_NoEmptyTest(df) ==
    IF MissingAny(df, {"University", "Year", "Sessions_Held"}) THEN Raise("KeyError")
    ELSE AltairChart

draw_sessions_heatmap(df) ==
    IF IsEmpty(df) THEN Info("No data for selected filters.")
    ELSE IF MissingAny(df, {"University", "Year", "Sessions_Held"}) THEN Raise("KeyError")
    ELSE AltairChart

draw_stress_stacked_bar(df) ==
    IF IsEmpty(df) \/ ~HasColumn(df, "Stress_Level")
    THEN Info("Stress level data unavailable for selected filters.")
    ELSE IF MissingAny(df, {"University"}) THEN Raise("ValueError")
    ELSE AltairChart

draw_sleep_violin(df) ==
    IF IsEmpty(df) \/ ~HasColumn(df, "Avg_Sleep_Hours")
    THEN Info("Sleep data unavailable for selected filters.")
    ELSE IF HAS_PLOTLY THEN PlotlyChart
    ELSE _warn_missing("plotly-express")

\* draw_stress_treemap without the HAS_PLOTLY test of line 255: px is unbound
\* when the import failed.
draw_stress_treemap_NoPlotlyTest(df) ==
    IF IsEmpty(df) \/ ~HasColumn(df, "Primary_Stress_Factor")
    THEN Info("Stress factor data unavailable for selected filters.")
    ELSE IF HAS_PLOTLY THEN PlotlyChart
    ELSE Raise("NameError")

draw_stress_treemap(df) ==
    IF IsEmpty(df) \/ ~HasColumn(df, "Primary_Stress_Factor")
    THEN Info("Stress factor data unavailable for selected filters.")
    ELSE IF HAS_PLOTLY THEN PlotlyChart
    ELSE _warn_missing("plotly-express")

\* draw_stress_sunburst with Stress_Level left out of the required set of
\* line 263: px.sunburst is handed a path column the frame does not have.
draw_stress_sunburst_NoStressLevelTest(df) ==
    IF IsEmpty(df) \/ MissingAny(df, {"Seeks_Help", "Gender"})
    THEN Info("Sunburst requires Stress_Level, Seeks_Help, and Gender columns.")
    ELSE IF HAS_PLOTLY
    THEN IF MissingAny(df, {"Stress_Level"}) THEN Raise("ValueError") ELSE PlotlyChart
    ELSE _warn_missing("plotly-express")

draw_stress_sunburst(df) ==
    IF IsEmpty(df) \/ MissingAny(df, {"Stress_Level", "Seeks_Help", "Gender"})
    THEN Info("Sunburst requires Stress_Level, Seeks_Help, and Gender columns.")
    ELSE IF HAS_PLOTLY THEN PlotlyChart
    ELSE _warn_missing("plotly-express")

draw_age_hist(df) ==
    IF IsEmpty(df) \/ ~HasColumn(df, "Age")
    THEN Info("Age data unavailable for selected filters.")
    ELSE IF HAS_PLOTLY THEN PlotlyChart
    ELSE AltairChart                       \* Altair fallback histogram

draw_campaign_timeline(df) ==
    IF IsEmpty(df) THEN Info("No campaign data for selected filters.")
    ELSE AltairChart

draw_session_notes_wordcloud(df) ==
    IF IsEmpty(df) \/ ~HasColumn(df, "Session_Notes")
    THEN Info("Session notes unavailable for selected filters.")
    ELSE IF ~HAS_WORDCLOUD THEN _warn_missing("wordcloud")
    ELSE IF \A i \in 1..Len(df.rows) :
                df.rows[i]["Session_Notes"] = MissingText \/ IsBlank(df.rows[i]["Session_Notes"])
    THEN Info("Session notes are empty after filtering.")
    ELSE Pyplot

-----------------------------------------------------------------------------
(* Dashboard layout, main.py:337-357 *)

Charts == 1..10

ChartName == <<"draw_sessions_trend", "draw_sessions_bubble", "draw_sessions_heatmap",
               "draw_stress_stacked_bar", "draw_sleep_violin", "draw_stress_treemap",
               "draw_stress_sunburst", "draw_age_hist", "draw_campaign_timeline",
               "draw_session_notes_wordcloud">>

\* The table the i-th chart call is given.
ChartInput(i, t) ==
    IF i \in {1, 2, 3, 10} THEN t.session
    ELSE IF i = 9 THEN t.campaign
    ELSE t.stress

\* The i-th chart call of the layout on the filtered tables t.
Draw(i, t) ==
    CASE i = 1 -> draw_sessions_trend(t.session)
      [] i = 2 -> draw_sessions_bubble(t.session)
      [] i = 3 -> draw_sessions_heatmap(t.session)
      [] i = 4 -> draw_stress_stacked_bar(t.stress)
      [] i = 5 -> draw_sleep_violin(t.stress)
      [] i = 6 -> draw_stress_treemap(t.stress)
      [] i = 7 -> draw_stress_sunburst(t.stress)
      [] i = 8 -> draw_age_hist(t.stress)
      [] i = 9 -> draw_campaign_timeline(t.campaign)
      [] i = 10 -> draw_session_notes_wordcloud(t.session)

\* The layout runs the calls in order; an exception ends the run.  drawn[i] is
\* what the i-th call shows if it is reached.
LayoutOf(drawn) ==
    [i \in Charts |->
        IF \E j \in 1..(i - 1) : drawn[j].kind = "raise" THEN NotReached ELSE drawn[i]]

Layout(t) ==
    IF t.raised # "none" THEN [i \in Charts |-> NotReached]
    ELSE LayoutOf(<<Draw(1, t), Draw(2, t), Draw(3, t), Draw(4, t), Draw(5, t),
                    Draw(6, t), Draw(7, t), Draw(8, t), Draw(9, t), Draw(10, t)>>)

-----------------------------------------------------------------------------
(* Script runs *)

Loaded == [campaign |-> campaign_df_all, session |-> session_df_all, stress |-> stress_df_all]

\* The university options taken from the unfiltered session table.
UnivOptionsUnfiltered(sy) == univ_options(session_df_all)

\* The university options offered once year sy is selected (lines 132-135).
UnivOptions(sy) == univ_options(YearFiltered(Loaded, sy).session)

\* The script from line 109 on, with the widgets at (sy, su).
Script(tables, sy, su) ==
    \E t \in {Sidebar(tables, sy, su)} :
      \E out \in {Layout(t)} :
        LET failed == {i \in Charts : out[i].kind = "raise"}
        IN /\ selected_year' = sy
           /\ selected_univ' = su
           /\ session_df' = t.session
           /\ campaign_df' = t.campaign
           /\ stress_df' = t.stress
           /\ shown' = out
           /\ pivot' = IF out[3].kind = "altair_chart" THEN PivotMelt(t.session) ELSE {}
           /\ agg' = IF out[9].kind = "altair_chart" THEN GroupSize(t.campaign) ELSE {}
           /\ raised' = IF t.raised # "none" THEN t.raised
                        ELSE IF failed # {} THEN out[CHOOSE i \in failed : TRUE].arg
                        ELSE "none"
           /\ pc' = IF t.raised # "none" \/ failed # {} THEN "aborted" ELSE "rendered"

\* The first run: load_data fills the cache (line 104), both selectboxes show
\* their first option.
FirstRun ==
    /\ pc = "start"
    /\ IF LoadRaises(files) # "none"
       THEN /\ pc' = "load_error"
            /\ raised' = LoadRaises(files)
            /\ UNCHANGED <<campaign_df_all, session_df_all, stress_df_all, selected_year,
                           selected_univ, session_df, campaign_df, stress_df, shown,
                           pivot, agg>>
       ELSE \E tables \in {load_data(files)} :
            /\ campaign_df_all' = tables.campaign
            /\ session_df_all' = tables.session
            /\ stress_df_all' = tables.stress
            /\ Script(tables, AllYears, All)
    /\ UNCHANGED <<files, HAS_PLOTLY, HAS_WORDCLOUD>>

\* The user picks a year and a university among the options offered; the
\* script runs again on the cached tables.
Rerun ==
    /\ pc \in {"rendered", "aborted"}
    /\ \E sy \in {AllYears} \cup Range(year_options(session_df_all)) :
         \E su \in {All} \cup Range(UnivOptions(sy)) :
            Script(Loaded, sy, su)
    /\ UNCHANGED <<files, HAS_PLOTLY, HAS_WORDCLOUD, campaign_df_all, session_df_all,
                   stress_df_all>>

Next == FirstRun \/ Rerun

-----------------------------------------------------------------------------
(* Initial states: the files under data/ and the installed libraries *)

SeqsUpTo(S, n) == UNION {[1..k -> S] : k \in 0..n}

SessionRow(cell, u, h, note) ==
    [Year |-> cell, University |-> u, Sessions_Held |-> h, Students_Served |-> 40,
     Avg_Session_Duration |-> 30, Session_Notes |-> note]
CampaignRow(d, u) == [Date |-> d, University |-> u, Headline |-> "news"]
StressRow(y, u) ==
    [University |-> u, Stress_Level |-> "High", Gender |-> "F", Age |-> 20,
     Avg_Sleep_Hours |-> 6, Primary_Stress_Factor |-> "Exams", Seeks_Help |-> "Yes",
     Year |-> y]

\* A file with header cols less the columns D and the given rows.
File(cols, D, rows) ==
    LET h == DropColumns(cols, D)
    IN [columns |-> h, rows |-> [i \in 1..Len(rows) |-> Project(rows[i], h)]]

Dropped(cols) == {D \in SUBSET Range(cols) : Cardinality(D) <= MaxMissing}

SampleSession(note) ==
    << SessionRow(<<"2","0","2","3">>, "A", 5, note),
       SessionRow(<<"2","0","2","4">>, "B", 3, MissingText) >>
SampleCampaign ==
    << CampaignRow(<<"2","0","2","3","-","0","1","-","1","5">>, "A"),
       CampaignRow(<<"s","o","o","n">>, "B") >>
SampleStress == << StressRow(2023, "A"), StressRow(2024, "B") >>

SessionRowsPlain == {SessionRow(c, u, 3, "calm") : c \in YearCells, u \in UniversitySet}
SessionRowsRich ==
    {SessionRow(c, u, h, "calm") : c \in YearCells \cup {BadYearCell}, u \in UniversitySet,
                                   h \in HeldValues}
CampaignRows == {CampaignRow(d, u) : d \in DateCells, u \in UniversitySet}
StressRows == {StressRow(y, u) : y \in Years, u \in UniversitySet}

\* Files with columns missing: one file at a time lacks up to MaxMissing
\* columns, each file is empty or a sample, the libraries are there or not.
InitSchemas ==
    /\ HAS_PLOTLY \in BOOLEAN
    /\ HAS_WORDCLOUD \in BOOLEAN
    /\ \E rs \in {<<>>, SampleSession("calm"), SampleSession(" ")},
          rc \in {<<>>, SampleCampaign}, rt \in {<<>>, SampleStress} :
         \/ \E D \in Dropped(SessionColumns) :
               files = [session |-> File(SessionColumns, D, rs),
                        campaign |-> File(CampaignColumns, {}, rc),
                        stress |-> File(StressColumns, {}, rt)]
         \/ \E D \in Dropped(CampaignColumns) :
               files = [session |-> File(SessionColumns, {}, rs),
                        campaign |-> File(CampaignColumns, D, rc),
                        stress |-> File(StressColumns, {}, rt)]
         \/ \E D \in Dropped(StressColumns) :
               files = [session |-> File(SessionColumns, {}, rs),
                        campaign |-> File(CampaignColumns, {}, rc),
                        stress |-> File(StressColumns, D, rt)]

\* Files to filter: any session rows, with any campaign rows (with or without
\* a University column) or any stress rows (with or without Year, University).
InitFilter ==
    /\ HAS_PLOTLY = TRUE
    /\ HAS_WORDCLOUD = TRUE
    /\ \E rs \in SeqsUpTo(SessionRowsPlain, MaxRows) :
         \/ \E rc \in SeqsUpTo(CampaignRows, MaxOtherRows), D \in SUBSET {"University"} :
               files = [session |-> File(SessionColumns, {}, rs),
                        campaign |-> File(CampaignColumns, D, rc),
                        stress |-> File(StressColumns, {}, SampleStress)]
         \/ \E rt \in SeqsUpTo(StressRows, MaxOtherRows), D \in SUBSET {"Year", "University"} :
               files = [session |-> File(SessionColumns, {}, rs),
                        campaign |-> File(CampaignColumns, {}, SampleCampaign),
                        stress |-> File(StressColumns, D, rt)]

\* Files to aggregate: session rows with any counts and year cells, or any
\* campaign rows.
InitAggregate ==
    /\ HAS_PLOTLY = TRUE
    /\ HAS_WORDCLOUD = TRUE
    /\ \/ \E rs \in SeqsUpTo(SessionRowsRich, MaxRows) :
               files = [session |-> File(SessionColumns, {}, rs),
                        campaign |-> File(CampaignColumns, {}, SampleCampaign),
                        stress |-> File(StressColumns, {}, SampleStress)]
       \/ \E rc \in SeqsUpTo(CampaignRows, MaxRows), D \in SUBSET {"University"} :
               files = [session |-> File(SessionColumns, {}, SampleSession("calm")),
                        campaign |-> File(CampaignColumns, D, rc),
                        stress |-> File(StressColumns, {}, SampleStress)]

Init ==
    /\ InitSchemas \/ InitFilter \/ InitAggregate
    /\ pc = "start"
    /\ campaign_df_all = EmptyDF
    /\ session_df_all = EmptyDF
    /\ stress_df_all = EmptyDF
    /\ selected_year = AllYears
    /\ selected_univ = All
    /\ session_df = EmptyDF
    /\ campaign_df = EmptyDF
    /\ stress_df = EmptyDF
    /\ raised = "none"
    /\ shown = [i \in Charts |-> NotReached]
    /\ pivot = {}
    /\ agg = {}

Spec == Init /\ [][Next]_vars

-----------------------------------------------------------------------------
(* Properties *)

\* The script has run (to its end or to an exception).
Ran == pc \in {"rendered", "aborted"}

\* The sidebar block raised: no chart call was reached.
SidebarRaised == pc = "aborted" /\ shown[1] = NotReached

Filtered == [session |-> session_df, campaign |-> campaign_df, stress |-> stress_df,
             raised |-> raised]

Reached(i) == shown[i] # NotReached

\* The columns a chart function reads whenever it plots.
ChartReads(i) ==
    CASE i = 1 -> {"University", "Year", "Sessions_Held"}
      [] i = 2 -> {"Sessions_Held", "Students_Served", "Avg_Session_Duration", "Year"}
      [] i = 3 -> {"University", "Year", "Sessions_Held"}
      [] i = 4 -> {"University", "Stress_Level"}
      [] i = 5 -> {"Avg_Sleep_Hours"}
      [] i = 6 -> {"Primary_Stress_Factor"}
      [] i = 7 -> {"Stress_Level", "Seeks_Help", "Gender"}
      [] i = 8 -> {"Age"}
      [] i = 9 -> {"Year"}
      [] i = 10 -> {"Session_Notes"}

\* The columns a chart function tests for before it plots.
ChartGuards(i) ==
    CASE i = 4 -> {"Stress_Level"}
      [] i = 5 -> {"Avg_Sleep_Hours"}
      [] i = 6 -> {"Primary_Stress_Factor"}
      [] i = 7 -> {"Stress_Level", "Seeks_Help", "Gender"}
      [] i = 8 -> {"Age"}
      [] i = 10 -> {"Session_Notes"}
      [] OTHER -> {}

\* The i-th chart's table is non-empty and has the columns the chart tests for.
PastGuards(i) ==
    /\ ~IsEmpty(ChartInput(i, Filtered))
    /\ ~MissingAny(ChartInput(i, Filtered), ChartGuards(i))

YearPredicateHolds(df) ==
    (selected_year # AllYears /\ HasColumn(df, "Year"))
        => \A i \in 1..Len(df.rows) : df.rows[i]["Year"] = selected_year

UnivPredicateHolds(df) ==
    (selected_univ # All /\ HasColumn(df, "University"))
        => \A i \in 1..Len(df.rows) : df.rows[i]["University"] = selected_univ

\* C1: for any offered year and university selection the sidebar yields the
\* three filtered tables, each with no more rows than its loaded table, and
\* every retained row has the selected year (when one is selected) and the
\* selected university (when one is selected), for the dimensions its table
\* has.
C1_FilteredRowsSatisfyFilters ==
    Ran =>
        /\ ~SidebarRaised
        /\ Len(session_df.rows) <= Len(session_df_all.rows)
        /\ Len(campaign_df.rows) <= Len(campaign_df_all.rows)
        /\ Len(stress_df.rows) <= Len(stress_df_all.rows)
        /\ \A df \in {session_df, campaign_df, stress_df} :
              YearPredicateHolds(df) /\ UnivPredicateHolds(df)

\* C2: when a specific year or university is selected and the campaign or
\* stress table lacks that column, filtering completes without error and the
\* table is left unconstrained in that dimension.
C2_AbsentDimensionIgnored ==
    Ran =>
        /\ (selected_univ # All /\ ~HasColumn(campaign_df_all, "University"))
              => /\ ~SidebarRaised
                 /\ campaign_df = YearFiltered(Loaded, selected_year).campaign
        /\ (selected_univ # All /\ ~HasColumn(stress_df_all, "University"))
              => /\ ~SidebarRaised
                 /\ stress_df = YearFiltered(Loaded, selected_year).stress
        /\ (selected_year # AllYears /\ ~HasColumn(stress_df_all, "Year"))
              => /\ ~SidebarRaised
                 /\ \A i \in 1..Len(stress_df_all.rows) :
                       (selected_univ = All \/ ~HasColumn(stress_df_all, "University")
                          \/ stress_df_all.rows[i]["University"] = selected_univ)
                       => \E j \in 1..Len(stress_df.rows) :
                             stress_df.rows[j] = stress_df_all.rows[i]

\* C3: a chart whose table lacks a column the chart reads is skipped with a
\* notice, and every chart call after it in the layout is still reached.
C3_MissingColumnSkipsOnlyThatChart ==
    \A i \in Charts :
        (Reached(i) /\ MissingAny(ChartInput(i, Filtered), ChartReads(i)))
            => /\ shown[i].kind \in {"info", "warning"}
               /\ \A j \in Charts : j > i => Reached(j)

\* C4: every chart function that is called on a table with zero rows shows an
\* informational message; it plots nothing and raises nothing.
C4_EmptyTableShortCircuits ==
    \A i \in Charts :
        (Reached(i) /\ Len(ChartInput(i, Filtered).rows) = 0) => shown[i].kind = "info"

\* C4 witness: a run in which all three filtered tables are empty and each of
\* the ten chart functions was called and showed its message.
C4_Witness ==
    /\ pc = "rendered"
    /\ Len(session_df.rows) = 0 /\ Len(campaign_df.rows) = 0 /\ Len(stress_df.rows) = 0
    /\ \A i \in Charts : shown[i].kind = "info"

\* C5, as stated: with Plotly (WordCloud) unavailable, every chart that uses it
\* and gets past its data tests shows the warning naming the library, plots
\* nothing, and the layout goes on to the next chart.
C5_MissingLibraryWarnsAndSkips ==
    /\ \A i \in {2, 5, 6, 7, 8} :
          (~HAS_PLOTLY /\ Reached(i) /\ PastGuards(i))
             => shown[i] = _warn_missing("plotly-express") /\ Reached(i + 1)
    /\ (~HAS_WORDCLOUD /\ Reached(10) /\ PastGuards(10))
          => shown[10] = _warn_missing("wordcloud") /\ pc = "rendered"

\* C5, amended: as above for draw_sessions_bubble, draw_sleep_violin,
\* draw_stress_treemap, draw_stress_sunburst and draw_session_notes_wordcloud;
\* draw_age_hist shows no warning without Plotly and draws its Altair
\* fallback histogram instead.  In both cases the next chart call is reached.
C5_MissingLibraryWarnsOrFallsBack ==
    /\ \A i \in {2, 5, 6, 7} :
          (~HAS_PLOTLY /\ Reached(i) /\ PastGuards(i))
             => shown[i] = _warn_missing("plotly-express") /\ Reached(i + 1)
    /\ (~HAS_PLOTLY /\ Reached(8) /\ PastGuards(8))
          => shown[8] = AltairChart /\ Reached(9)
    /\ (~HAS_WORDCLOUD /\ Reached(10) /\ PastGuards(10))
          => shown[10] = _warn_missing("wordcloud") /\ pc = "rendered"

\* C5 witness: a full run with neither library, where the four Plotly-only
\* charts and the word cloud warned and the age histogram fell back.
C5_Witness ==
    /\ ~HAS_PLOTLY /\ ~HAS_WORDCLOUD /\ pc = "rendered"
    /\ \A i \in {2, 5, 6, 7} : shown[i] = _warn_missing("plotly-express")
    /\ shown[8] = AltairChart
    /\ shown[10] = _warn_missing("wordcloud")

\* The stress charts are called on a non-empty table without Stress_Level.
NoStressLevelCase ==
    /\ Reached(4)
    /\ ~IsEmpty(stress_df)
    /\ ~HasColumn(stress_df, "Stress_Level")

IsChart(o) == o.kind \in {"altair_chart", "plotly_chart", "pyplot"}

\* C6, as stated: on a non-empty stress table without Stress_Level,
\* draw_stress_stacked_bar and draw_stress_sunburst show an informational
\* message, and draw_sleep_violin, draw_stress_treemap and draw_age_hist
\* produce their chart.
C6_StressLevelMissing ==
    NoStressLevelCase =>
        /\ shown[4].kind = "info" /\ shown[7].kind = "info"
        /\ IsChart(shown[5]) /\ IsChart(shown[6]) /\ IsChart(shown[8])

\* C6, amended: the two charts that need Stress_Level show their message;
\* each of the other three produces its chart when its own column is there
\* (Avg_Sleep_Hours, Primary_Stress_Factor, Age) and, for the violin and the
\* treemap, Plotly is installed; otherwise it shows its own message or the
\* missing-library warning.  None of the five raises.
C6_StressLevelMissingOthersIndependent ==
    NoStressLevelCase =>
        /\ shown[4].kind = "info" /\ shown[7].kind = "info"
        /\ shown[5] = (IF ~HasColumn(stress_df, "Avg_Sleep_Hours")
                       THEN Info("Sleep data unavailable for selected filters.")
                       ELSE IF HAS_PLOTLY THEN PlotlyChart
                       ELSE _warn_missing("plotly-express"))
        /\ shown[6] = (IF ~HasColumn(stress_df, "Primary_Stress_Factor")
                       THEN Info("Stress factor data unavailable for selected filters.")
                       ELSE IF HAS_PLOTLY THEN PlotlyChart
                       ELSE _warn_missing("plotly-express"))
        /\ HasColumn(stress_df, "Age") => IsChart(shown[8])
        /\ ~HasColumn(stress_df, "Age") => shown[8].kind = "info"

\* C6 witness: Stress_Level alone is missing, Plotly is installed, the two
\* charts that need it are skipped and the other three are drawn.
C6_Witness ==
    /\ NoStressLevelCase /\ HAS_PLOTLY
    /\ shown[4].kind = "info" /\ shown[7].kind = "info"
    /\ shown[5] = PlotlyChart /\ shown[6] = PlotlyChart /\ shown[8] = PlotlyChart

\* C7: every row of a grouped summary table (the heatmap's pivot, the
\* timeline's headline count) has a key combination that at least one input
\* row has.
C7_AbsentGroupsOmitted ==
    /\ \A r \in pivot :
          \E i \in 1..Len(session_df.rows) :
             /\ session_df.rows[i]["University"] = r.University
             /\ session_df.rows[i]["Year"] = r.Year
    /\ \A r \in agg :
          \E i \in 1..Len(campaign_df.rows) :
             /\ campaign_df.rows[i]["Year"] = r.Year
             /\ campaign_df.rows[i][TimelineKey(campaign_df)] = r.Key

\* C8: an unparsable date or year cell gives a missing Year and is never
\* fatal: load_data returns whenever the columns it converts are there.
C8_UnparsableYearNeverFatal ==
    /\ (HasColumn(files.campaign, "Date") /\ HasColumn(files.session, "Year"))
          => pc # "load_error"
    /\ Ran => \A i \in 1..Len(campaign_df_all.rows) :
                 ToDatetimeYear(campaign_df_all.rows[i]["Date"]) = NaN
                    => campaign_df_all.rows[i]["Year"] = NaN

\* The rows of the filtered session table with university u and year y.
SessionRowsOf(u, y) ==
    {i \in 1..Len(session_df.rows) :
        session_df.rows[i]["University"] = u /\ session_df.rows[i]["Year"] = y}

RECURSIVE TotalHeld(_)
TotalHeld(I) ==
    IF I = {} THEN 0
    ELSE LET i == CHOOSE x \in I : TRUE
         IN session_df.rows[i]["Sessions_Held"] + TotalHeld(I \ {i})

\* C9: when the heatmap is drawn, every (Year, University) pair with at least
\* one session row has exactly one summary row, whose Sessions_Held is the
\* sum of Sessions_Held over the rows of that pair.
C9_PivotSumsSessionsHeld ==
    shown[3].kind = "altair_chart" =>
        \A u \in UniversitySet, y \in Years :
            SessionRowsOf(u, y) # {} =>
                /\ Cardinality({r \in pivot : r.University = u /\ r.Year = y}) = 1
                /\ \A r \in pivot :
                      (r.University = u /\ r.Year = y)
                         => r.Sessions_Held = TotalHeld(SessionRowsOf(u, y))

\* C9 witness: a pair with two rows, 5 and 3 sessions, summarised as 8.
C9_Witness ==
    /\ shown[3].kind = "altair_chart"
    /\ \E r \in pivot :
          /\ r.Sessions_Held = 8
          /\ Cardinality(SessionRowsOf(r.University, r.Year)) = 2

\* C10: for any selection among the offered options, the filtered session
\* table is non-empty whenever the loaded session table is non-empty.
C10_FilteredSessionNonEmpty ==
    (Ran /\ Len(session_df_all.rows) > 0) => Len(session_df.rows) > 0

\* C10 witness: a year and a university are selected, the session table is
\* narrowed but not empty, and the campaign table is filtered down to nothing.
C10_Witness ==
    /\ Ran
    /\ selected_year # AllYears /\ selected_univ # All
    /\ Len(session_df.rows) > 0
    /\ Len(session_df.rows) < Len(session_df_all.rows)
    /\ Len(campaign_df_all.rows) > 0 /\ Len(campaign_df.rows) = 0

====
